---- MODULE Spec2Model ----
(***************************************************************************)
(* The UI command pipeline of src/bridge/ui_commands.rs: three tasks       *)
(* spawned by start_command_processors (the router, the droppable          *)
(* dispatcher and the non-droppable dispatcher), the two unbounded         *)
(* channels between them, the shared `running` flag, and                   *)
(* UiCommand::execute with the outcome of its remote call.                 *)
(***************************************************************************)
EXTENDS Integers, Sequences, FiniteSets

\* Number of commands the front-end submits in one run.
MaxCmds == 3

----------------------------------------------------------------------------
\* UiCommand values.  Every command is a record with the same fields; a
\* variant that has no such payload carries 0 / "".  grid_id and position
\* are left out: the pipeline never reads them.

NoPayload(t) == [tag |-> t, width |-> 0, height |-> 0, text |-> ""]

Resize(w, h) == [tag |-> "Resize", width |-> w, height |-> h, text |-> ""]

WithText(t, s) == [tag |-> t, width |-> 0, height |-> 0, text |-> s]

Tags ==
  {"Quit", "Resize", "Keyboard", "MouseButton", "Scroll", "Drag", "FileDrop",
   "FocusLost", "FocusGained", "RegisterRightClick", "UnregisterRightClick"}

\* Every variant with every payload of these small payload sets.
UiCommand ==
  [tag : Tags, width : {0, 5, 120}, height : {0, 1, 60},
   text : {"", "a", "up", "/tmp/x.txt"}]

\* The commands the front-end submits in the runs explored: two droppable
\* kinds (one of them with two payloads), a guaranteed command whose call
\* must succeed, and the two whose failure is ignored.
FrontEndCommands ==
  {Resize(5, 1), Resize(120, 60), WithText("Scroll", "up"),
   WithText("Keyboard", "a"), NoPayload("Quit"),
   WithText("FileDrop", "/tmp/x.txt")}

\* A mis-classification: Scroll is left out of the droppable arm.
ok_to_drop_without_scroll(c) == c.tag \in {"Resize", "Drag"}

\* UiCommand::ok_to_drop
ok_to_drop(c) ==
  CASE c.tag = "Resize" -> TRUE
    [] c.tag = "Scroll" -> TRUE
    [] c.tag = "Drag"   -> TRUE
    [] OTHER            -> FALSE

\* A failure policy in which Quit and FileDrop also .expect() their call.
unwraps_result_everywhere(c) ==
  c.tag \notin {"RegisterRightClick", "UnregisterRightClick"}

\* The arms of UiCommand::execute that end in .expect(..): a failed remote
\* call panics the task that runs execute.  The other arms end in .ok().
unwraps_result(c) ==
  c.tag \in {"Resize", "Keyboard", "MouseButton", "Scroll", "Drag",
             "FocusLost", "FocusGained"}

\* How UiCommand::execute ends, given whether its remote call succeeded.
execute(c, call_ok) ==
  IF ~call_ok /\ unwraps_result(c) THEN "panicked" ELSE "returned"

\* What the three functions of windows_utils return to one call of
\* execute: true when the registry operation succeeded.
OsResults ==
  [unregister_rightclick : BOOLEAN,
   register_rightclick_directory : BOOLEAN,
   register_rightclick_file : BOOLEAN]

\* if taken { nvim.err_writeln(msg).await.ok(); error!("{}", msg); }
err_writeln_if(taken, msg) ==
  IF taken THEN <<[method |-> "err_writeln", args |-> <<msg>>]>> ELSE <<>>

\* A resize arm that caps the dimensions (min) instead of flooring them.
remote_calls_capped(c, os) ==
  IF c.tag = "Resize"
    THEN <<[method |-> "ui_try_resize",
            args |-> <<IF c.width <= 10 THEN c.width ELSE 10,
                       IF c.height <= 3 THEN c.height ELSE 3>>]>>
    ELSE <<[method |-> "other", args |-> <<>>]>>

\* u32::max
max(a, b) == IF a >= b THEN a ELSE b

\* The remote calls UiCommand::execute awaits, in order, given what the
\* windows_utils functions return (read by the two cfg(windows) arms only).
\* The Resize arm passes width.max(10) as i64 and height.max(3) as i64 (a
\* u32 widened to i64 keeps its value).  The string arguments are passed as
\* they are; grid_id and position are not modelled.  RegisterRightClick
\* reports when unregister_rightclick() returns true, and when either
\* register function returns false; UnregisterRightClick reports when
\* unregister_rightclick() returns false.
remote_calls(c, os) ==
  CASE c.tag = "Quit" ->
         <<[method |-> "command", args |-> <<"qa!">>]>>
    [] c.tag = "Resize" ->
         <<[method |-> "ui_try_resize",
            args |-> <<max(c.width, 10), max(c.height, 3)>>]>>
    [] c.tag = "Keyboard" ->
         <<[method |-> "input", args |-> <<c.text>>]>>
    [] c.tag = "MouseButton" ->
         <<[method |-> "input_mouse", args |-> <<"left", c.text, "">>]>>
    [] c.tag = "Scroll" ->
         <<[method |-> "input_mouse", args |-> <<"wheel", c.text, "">>]>>
    [] c.tag = "Drag" ->
         <<[method |-> "input_mouse", args |-> <<"left", "drag", "">>]>>
    [] c.tag = "FocusLost" ->
         <<[method |-> "command",
            args |-> <<"if exists('#FocusLost') | doautocmd <nomodeline> FocusLost | endif">>]>>
    [] c.tag = "FocusGained" ->
         <<[method |-> "command",
            args |-> <<"if exists('#FocusGained') | doautocmd <nomodeline> FocusGained | endif">>]>>
    [] c.tag = "FileDrop" ->
         <<[method |-> "command", args |-> <<"e " \o c.text>>]>>
    [] c.tag = "RegisterRightClick" ->
         err_writeln_if(os.unregister_rightclick,
           "Could not unregister previous menu item. Possibly already registered or not running as Admin?")
         \o err_writeln_if(~os.register_rightclick_directory,
           "Could not register directory context menu item. Possibly already registered or not running as Admin?")
         \o err_writeln_if(~os.register_rightclick_file,
           "Could not register file context menu item. Possibly already registered or not running as Admin?")
    [] c.tag = "UnregisterRightClick" ->
         err_writeln_if(~os.unregister_rightclick,
           "Could not remove context menu items. Possibly already removed or not running as Admin?")

----------------------------------------------------------------------------
VARIABLES
  submitted,                \* every command sent into the inbound channel
  ui_command_queue,         \* inbound channel buffer (indices of submitted)
  ui_command_sender_alive,  \* the front-end still holds the inbound sender
  running,                  \* the shared AtomicBool
  droppable_queue,          \* buffer of the droppable channel
  non_droppable_queue,      \* buffer of the non-droppable channel
  router_pc, ui_command,    \* router task: position, command in hand
  droppable_pc, latest,     \* droppable task: position, `latest`
  non_droppable_pc,         \* non-droppable task: position
  non_droppable_ui_command, \* the command whose execute it awaits
  executing,                \* commands whose execute is in flight
  exec_ok, exec_err,        \* commands whose remote call returned Ok / Err
  droppable_sent,           \* history: sent into the droppable channel
  non_droppable_sent,       \* history: sent into the non-droppable channel
  executed,                 \* history: execute calls started by the
                            \* non-droppable task, in order
  rounds                    \* history: one record per recv/drain round of
                            \* the droppable task

vars ==
  <<submitted, ui_command_queue, ui_command_sender_alive, running,
    droppable_queue, non_droppable_queue, router_pc, ui_command,
    droppable_pc, latest, non_droppable_pc, non_droppable_ui_command,
    executing, exec_ok, exec_err, droppable_sent, non_droppable_sent,
    executed, rounds>>

cmd(i) == submitted[i]

Ended == {"done", "panicked"}

\* The router task owns ui_command_receiver and both senders; they are
\* dropped when the task ends, normally or by a panic.
senders_dropped == router_pc \in Ended

droppable_receiver_dropped == droppable_pc \in Ended

non_droppable_receiver_dropped == non_droppable_pc \in Ended

Init ==
  /\ submitted = <<>>
  /\ ui_command_queue = <<>>
  /\ ui_command_sender_alive = TRUE
  /\ running = TRUE
  /\ droppable_queue = <<>>
  /\ non_droppable_queue = <<>>
  /\ router_pc = "load"
  /\ ui_command = 0
  /\ droppable_pc = "load"
  /\ latest = 0
  /\ non_droppable_pc = "load"
  /\ non_droppable_ui_command = 0
  /\ executing = {}
  /\ exec_ok = {}
  /\ exec_err = {}
  /\ droppable_sent = <<>>
  /\ non_droppable_sent = <<>>
  /\ executed = <<>>
  /\ rounds = <<>>

----------------------------------------------------------------------------
\* The front-end: the holder of the inbound sender.

Submit(c) ==
  /\ ui_command_sender_alive
  /\ ~senders_dropped
  /\ Len(submitted) < MaxCmds
  /\ submitted' = Append(submitted, c)
  /\ ui_command_queue' = Append(ui_command_queue, Len(submitted) + 1)
  /\ UNCHANGED <<ui_command_sender_alive, running, droppable_queue,
                 non_droppable_queue, router_pc, ui_command, droppable_pc,
                 latest, non_droppable_pc, non_droppable_ui_command,
                 executing, exec_ok, exec_err, droppable_sent,
                 non_droppable_sent, executed, rounds>>

CloseInbound ==
  /\ ui_command_sender_alive
  /\ ui_command_sender_alive' = FALSE
  /\ UNCHANGED <<submitted, ui_command_queue, running, droppable_queue,
                 non_droppable_queue, router_pc, ui_command, droppable_pc,
                 latest, non_droppable_pc, non_droppable_ui_command,
                 executing, exec_ok, exec_err, droppable_sent,
                 non_droppable_sent, executed, rounds>>

----------------------------------------------------------------------------
\* The router task (third tokio::spawn of start_command_processors).

front_end_vars == <<submitted, ui_command_sender_alive>>

droppable_task_vars == <<droppable_pc, latest, rounds>>

non_droppable_task_vars ==
  <<non_droppable_pc, non_droppable_ui_command, executed>>

execution_vars == <<executing, exec_ok, exec_err>>

\* if !running.load(Ordering::Relaxed) { break; }
RouterLoad ==
  /\ router_pc = "load"
  /\ router_pc' = IF running THEN "recv" ELSE "done"
  /\ UNCHANGED <<front_end_vars, ui_command_queue, running, droppable_queue,
                 non_droppable_queue, ui_command, droppable_task_vars,
                 non_droppable_task_vars, execution_vars, droppable_sent,
                 non_droppable_sent>>

\* ui_command_receiver.recv().await: Ok(ui_command) while the buffer holds
\* a command, Err(_) once it is empty and the sender is gone; the Err arm
\* stores false into running and breaks.
RouterRecv ==
  /\ router_pc = "recv"
  /\ IF ui_command_queue # <<>>
       THEN /\ ui_command' = Head(ui_command_queue)
            /\ ui_command_queue' = Tail(ui_command_queue)
            /\ router_pc' = "send"
            /\ UNCHANGED running
       ELSE /\ ~ui_command_sender_alive
            /\ running' = FALSE
            /\ router_pc' = "done"
            /\ UNCHANGED <<ui_command, ui_command_queue>>
  /\ UNCHANGED <<front_end_vars, droppable_queue, non_droppable_queue,
                 droppable_task_vars, non_droppable_task_vars,
                 execution_vars, droppable_sent, non_droppable_sent>>

\* if ui_command.ok_to_drop() { droppable_sender.send(..).expect(..) }
\* else { non_droppable_sender.send(..).expect(..) }
\* send fails, and expect panics, when the channel's receiver was dropped.
RouterSend ==
  /\ router_pc = "send"
  /\ IF ok_to_drop(cmd(ui_command))
       THEN /\ IF droppable_receiver_dropped
                 THEN /\ router_pc' = "panicked"
                      /\ UNCHANGED <<droppable_queue, droppable_sent>>
                 ELSE /\ droppable_queue' = Append(droppable_queue, ui_command)
                      /\ droppable_sent' = Append(droppable_sent, ui_command)
                      /\ router_pc' = "load"
            /\ UNCHANGED <<non_droppable_queue, non_droppable_sent>>
       ELSE /\ IF non_droppable_receiver_dropped
                 THEN /\ router_pc' = "panicked"
                      /\ UNCHANGED <<non_droppable_queue, non_droppable_sent>>
                 ELSE /\ non_droppable_queue' =
                           Append(non_droppable_queue, ui_command)
                      /\ non_droppable_sent' =
                           Append(non_droppable_sent, ui_command)
                      /\ router_pc' = "load"
            /\ UNCHANGED <<droppable_queue, droppable_sent>>
  /\ ui_command' = 0
  /\ UNCHANGED <<front_end_vars, ui_command_queue, running,
                 droppable_task_vars, non_droppable_task_vars,
                 execution_vars>>

----------------------------------------------------------------------------
\* The droppable task (first tokio::spawn).

\* if !droppable_running.load(Ordering::Relaxed) { break; }
DroppableLoad ==
  /\ droppable_pc = "load"
  /\ droppable_pc' = IF running THEN "recv" ELSE "done"
  /\ UNCHANGED <<front_end_vars, ui_command_queue, running, droppable_queue,
                 non_droppable_queue, router_pc, ui_command, latest, rounds,
                 non_droppable_task_vars, execution_vars, droppable_sent,
                 non_droppable_sent>>

\* A recv whose Err arm, like that of the other two tasks, stores false
\* into the flag and leaves the loop.
DroppableRecvStoringFalse ==
  /\ droppable_pc = "recv"
  /\ IF droppable_queue # <<>>
       THEN /\ latest' = Head(droppable_queue)
            /\ droppable_queue' = Tail(droppable_queue)
            /\ rounds' = Append(rounds, [buffered |-> droppable_queue,
                                         taken |-> <<Head(droppable_queue)>>,
                                         spawned |-> 0])
            /\ droppable_pc' = "try_recv"
            /\ UNCHANGED running
       ELSE /\ senders_dropped
            /\ running' = FALSE
            /\ droppable_pc' = "done"
            /\ UNCHANGED <<latest, droppable_queue, rounds>>
  /\ UNCHANGED <<front_end_vars, ui_command_queue,
                 non_droppable_queue, router_pc, ui_command,
                 non_droppable_task_vars, execution_vars, droppable_sent,
                 non_droppable_sent>>

\* A recv that keeps waiting on a channel whose sender was dropped instead
\* of reporting the closure.
DroppableRecvWaiting ==
  /\ droppable_pc = "recv"
  /\ droppable_queue # <<>>
  /\ latest' = Head(droppable_queue)
  /\ droppable_queue' = Tail(droppable_queue)
  /\ rounds' = Append(rounds, [buffered |-> droppable_queue,
                               taken |-> <<Head(droppable_queue)>>,
                               spawned |-> 0])
  /\ droppable_pc' = "try_recv"
  /\ UNCHANGED <<front_end_vars, ui_command_queue, running,
                 non_droppable_queue, router_pc, ui_command,
                 non_droppable_task_vars, execution_vars, droppable_sent,
                 non_droppable_sent>>

\* let mut latest = droppable_receiver.recv().await.expect(..): the first
\* buffered command, or a panic once the channel is empty and its sender
\* was dropped.
DroppableRecv ==
  /\ droppable_pc = "recv"
  /\ IF droppable_queue # <<>>
       THEN /\ latest' = Head(droppable_queue)
            /\ droppable_queue' = Tail(droppable_queue)
            /\ rounds' = Append(rounds, [buffered |-> droppable_queue,
                                         taken |-> <<Head(droppable_queue)>>,
                                         spawned |-> 0])
            /\ droppable_pc' = "try_recv"
       ELSE /\ senders_dropped
            /\ droppable_pc' = "panicked"
            /\ UNCHANGED <<latest, droppable_queue, rounds>>
  /\ UNCHANGED <<front_end_vars, ui_command_queue, running,
                 non_droppable_queue, router_pc, ui_command,
                 non_droppable_task_vars, execution_vars, droppable_sent,
                 non_droppable_sent>>

\* The current round's record with one more command taken.
Taking(i) ==
  [rounds EXCEPT ![Len(rounds)].taken = Append(@, i)]

\* A drain that keeps the first command it received instead of the newest.
DroppableTryRecvKeepingFirst ==
  /\ droppable_pc = "try_recv"
  /\ droppable_queue # <<>>
  /\ droppable_queue' = Tail(droppable_queue)
  /\ rounds' = Taking(Head(droppable_queue))
  /\ UNCHANGED <<front_end_vars, ui_command_queue, running,
                 non_droppable_queue, router_pc, ui_command, droppable_pc,
                 latest, non_droppable_task_vars, execution_vars,
                 droppable_sent, non_droppable_sent>>

\* while let Ok(new_latest) = droppable_receiver.try_recv()
\*     { latest = new_latest; }
DroppableTryRecv ==
  /\ droppable_pc = "try_recv"
  /\ droppable_queue # <<>>
  /\ latest' = Head(droppable_queue)
  /\ droppable_queue' = Tail(droppable_queue)
  /\ rounds' = Taking(Head(droppable_queue))
  /\ UNCHANGED <<front_end_vars, ui_command_queue, running,
                 non_droppable_queue, router_pc, ui_command, droppable_pc,
                 non_droppable_task_vars, execution_vars, droppable_sent,
                 non_droppable_sent>>

\* A drain that gives up before try_recv has reported an empty channel.
DroppableSpawnEarly ==
  /\ droppable_pc = "try_recv"
  /\ executing' = executing \cup {latest}
  /\ rounds' = [rounds EXCEPT ![Len(rounds)].spawned = latest]
  /\ latest' = 0
  /\ droppable_pc' = "load"
  /\ UNCHANGED <<front_end_vars, ui_command_queue, running, droppable_queue,
                 non_droppable_queue, router_pc, ui_command,
                 non_droppable_task_vars, exec_ok, exec_err, droppable_sent,
                 non_droppable_sent>>

\* A dispatcher that awaits the execution it starts, as the non-droppable
\* task does, before going back to the top of its loop.
DroppableSpawnAwaiting ==
  /\ droppable_pc = "try_recv"
  /\ droppable_queue = <<>>
  /\ executing' = executing \cup {latest}
  /\ rounds' = [rounds EXCEPT ![Len(rounds)].spawned = latest]
  /\ latest' = 0
  /\ droppable_pc' = "execute"
  /\ UNCHANGED <<front_end_vars, ui_command_queue, running, droppable_queue,
                 non_droppable_queue, router_pc, ui_command,
                 non_droppable_task_vars, exec_ok, exec_err, droppable_sent,
                 non_droppable_sent>>

\* try_recv returns Err (nothing buffered): the loop ends and
\* tokio::spawn(async move { latest.execute(&nvim).await; }) hands `latest`
\* to a task of its own; the dispatcher goes back to the top of its loop.
DroppableSpawn ==
  /\ droppable_pc = "try_recv"
  /\ droppable_queue = <<>>
  /\ executing' = executing \cup {latest}
  /\ rounds' = [rounds EXCEPT ![Len(rounds)].spawned = latest]
  /\ latest' = 0
  /\ droppable_pc' = "load"
  /\ UNCHANGED <<front_end_vars, ui_command_queue, running, droppable_queue,
                 non_droppable_queue, router_pc, ui_command,
                 non_droppable_task_vars, exec_ok, exec_err, droppable_sent,
                 non_droppable_sent>>

\* The spawned task's execute ends: its remote call returned Ok or Err.  A
\* panic of .expect(..) ends that spawned task only.
SpawnedExecuteReturns(i, call_ok) ==
  /\ i \in executing
  /\ ~(non_droppable_pc = "execute" /\ non_droppable_ui_command = i)
  /\ executing' = executing \ {i}
  /\ exec_ok' = IF call_ok THEN exec_ok \cup {i} ELSE exec_ok
  /\ exec_err' = IF call_ok THEN exec_err ELSE exec_err \cup {i}
  /\ UNCHANGED <<front_end_vars, ui_command_queue, running, droppable_queue,
                 non_droppable_queue, router_pc, ui_command,
                 droppable_task_vars, non_droppable_task_vars,
                 droppable_sent, non_droppable_sent>>

----------------------------------------------------------------------------
\* The non-droppable task (second tokio::spawn).

\* if !non_droppable_running.load(Ordering::Relaxed) { break; }
NonDroppableLoad ==
  /\ non_droppable_pc = "load"
  /\ non_droppable_pc' = IF running THEN "recv" ELSE "done"
  /\ UNCHANGED <<front_end_vars, ui_command_queue, running, droppable_queue,
                 non_droppable_queue, router_pc, ui_command,
                 droppable_task_vars, non_droppable_ui_command, executed,
                 execution_vars, droppable_sent, non_droppable_sent>>

\* A dispatcher that hands the command to a task of its own, as the
\* droppable task does, instead of awaiting execute.
NonDroppableRecvSpawning ==
  /\ non_droppable_pc = "recv"
  /\ non_droppable_queue # <<>>
  /\ non_droppable_queue' = Tail(non_droppable_queue)
  /\ executed' = Append(executed, Head(non_droppable_queue))
  /\ executing' = executing \cup {Head(non_droppable_queue)}
  /\ non_droppable_pc' = "load"
  /\ UNCHANGED <<front_end_vars, ui_command_queue, running, droppable_queue,
                 router_pc, ui_command, droppable_task_vars,
                 non_droppable_ui_command, exec_ok, exec_err, droppable_sent,
                 non_droppable_sent>>

\* A dispatcher that takes the newest buffered command instead of the
\* oldest.
NonDroppableRecvNewest ==
  /\ non_droppable_pc = "recv"
  /\ non_droppable_queue # <<>>
  /\ LET n == Len(non_droppable_queue) IN
       /\ non_droppable_ui_command' = non_droppable_queue[n]
       /\ non_droppable_queue' = SubSeq(non_droppable_queue, 1, n - 1)
       /\ executed' = Append(executed, non_droppable_queue[n])
       /\ executing' = executing \cup {non_droppable_queue[n]}
  /\ non_droppable_pc' = "execute"
  /\ UNCHANGED <<front_end_vars, ui_command_queue, running, droppable_queue,
                 router_pc, ui_command, droppable_task_vars, exec_ok,
                 exec_err, droppable_sent, non_droppable_sent>>

\* A dispatcher whose Err arm stores true instead of false.
NonDroppableRecvStoringTrue ==
  /\ non_droppable_pc = "recv"
  /\ IF non_droppable_queue # <<>>
       THEN /\ non_droppable_ui_command' = Head(non_droppable_queue)
            /\ non_droppable_queue' = Tail(non_droppable_queue)
            /\ executed' = Append(executed, Head(non_droppable_queue))
            /\ executing' = executing \cup {Head(non_droppable_queue)}
            /\ non_droppable_pc' = "execute"
            /\ UNCHANGED running
       ELSE /\ senders_dropped
            /\ running' = TRUE
            /\ non_droppable_pc' = "done"
            /\ UNCHANGED <<non_droppable_ui_command, non_droppable_queue,
                           executed, executing>>
  /\ UNCHANGED <<front_end_vars, ui_command_queue, droppable_queue,
                 router_pc, ui_command, droppable_task_vars, exec_ok,
                 exec_err, droppable_sent, non_droppable_sent>>

\* match non_droppable_receiver.recv().await: Ok(non_droppable_ui_command)
\* starts non_droppable_ui_command.execute(..), which the task awaits;
\* Err(_), once the channel is empty and its sender was dropped, stores
\* false into running and breaks.
NonDroppableRecv ==
  /\ non_droppable_pc = "recv"
  /\ IF non_droppable_queue # <<>>
       THEN /\ non_droppable_ui_command' = Head(non_droppable_queue)
            /\ non_droppable_queue' = Tail(non_droppable_queue)
            /\ executed' = Append(executed, Head(non_droppable_queue))
            /\ executing' = executing \cup {Head(non_droppable_queue)}
            /\ non_droppable_pc' = "execute"
            /\ UNCHANGED running
       ELSE /\ senders_dropped
            /\ running' = FALSE
            /\ non_droppable_pc' = "done"
            /\ UNCHANGED <<non_droppable_ui_command, non_droppable_queue,
                           executed, executing>>
  /\ UNCHANGED <<front_end_vars, ui_command_queue, droppable_queue,
                 router_pc, ui_command, droppable_task_vars, exec_ok,
                 exec_err, droppable_sent, non_droppable_sent>>

\* The awaited execute ends: the task goes back to the top of its loop, or
\* the panic of .expect(..) unwinds through the loop and ends the task.
NonDroppableExecuteReturns(call_ok) ==
  /\ non_droppable_pc = "execute"
  /\ non_droppable_ui_command \in executing
  /\ executing' = executing \ {non_droppable_ui_command}
  /\ exec_ok' = IF call_ok THEN exec_ok \cup {non_droppable_ui_command}
                ELSE exec_ok
  /\ exec_err' = IF call_ok THEN exec_err
                 ELSE exec_err \cup {non_droppable_ui_command}
  /\ non_droppable_pc' =
       IF execute(cmd(non_droppable_ui_command), call_ok) = "panicked"
         THEN "panicked" ELSE "load"
  /\ non_droppable_ui_command' = 0
  /\ UNCHANGED <<front_end_vars, ui_command_queue, running, droppable_queue,
                 non_droppable_queue, router_pc, ui_command,
                 droppable_task_vars, executed, droppable_sent,
                 non_droppable_sent>>

----------------------------------------------------------------------------
Router == RouterLoad \/ RouterRecv \/ RouterSend

DroppableTask ==
  DroppableLoad \/ DroppableRecv \/ DroppableTryRecv \/ DroppableSpawn

NonDroppableTask ==
  \/ NonDroppableLoad
  \/ NonDroppableRecv
  \/ \E call_ok \in BOOLEAN : NonDroppableExecuteReturns(call_ok)

SpawnedTasks ==
  \E i \in executing : \E call_ok \in BOOLEAN :
    SpawnedExecuteReturns(i, call_ok)

Next ==
  \/ \E c \in FrontEndCommands : Submit(c)
  \/ CloseInbound
  \/ RouterLoad
  \/ RouterRecv
  \/ RouterSend
  \/ DroppableLoad
  \/ DroppableRecv
  \/ DroppableTryRecv
  \/ DroppableSpawn
  \/ \E i \in executing : \E call_ok \in BOOLEAN :
       SpawnedExecuteReturns(i, call_ok)
  \/ NonDroppableLoad
  \/ NonDroppableRecv
  \/ \E call_ok \in BOOLEAN : NonDroppableExecuteReturns(call_ok)

Spec == Init /\ [][Next]_vars

\* The runtime polls every task that can make progress, and an awaited
\* remote call returns; the front-end is under no obligation.
FairSpec ==
  /\ Spec
  /\ WF_vars(Router)
  /\ WF_vars(DroppableTask)
  /\ WF_vars(NonDroppableTask)
  /\ WF_vars(SpawnedTasks)

\* As FairSpec, but a spawned droppable execution is under no obligation
\* to return.
FairSpecSpawnedMayHang ==
  /\ Spec
  /\ WF_vars(Router)
  /\ WF_vars(DroppableTask)
  /\ WF_vars(NonDroppableTask)

----------------------------------------------------------------------------
\* Auxiliary definitions for the properties.

IsPrefix(s, t) == Len(s) <= Len(t) /\ SubSeq(t, 1, Len(s)) = s

Last(s) == s[Len(s)]

Range(s) == {s[n] : n \in 1..Len(s)}

IsGuaranteed(i) == ~ok_to_drop(cmd(i))

IsDroppable(i) == ok_to_drop(cmd(i))

\* The commands the router has taken from the inbound channel, in order.
Received ==
  [n \in 1..(Len(submitted) - Len(ui_command_queue)) |-> n]

\* Those of them the router is done with (all but the one in its hand).
Routed ==
  IF router_pc = "send" THEN SubSeq(Received, 1, Len(Received) - 1)
  ELSE Received

\* The guaranteed commands in their order of submission.
GuaranteedSubmitted ==
  SelectSeq([n \in 1..Len(submitted) |-> n], IsGuaranteed)

\* Commands whose execute has been started, by either dispatcher.
EverExecuting == executing \cup exec_ok \cup exec_err

GuaranteedExecuting == {i \in executing : IsGuaranteed(i)}

CompletedRounds == {k \in 1..Len(rounds) : rounds[k].spawned # 0}

----------------------------------------------------------------------------
\* C1: the guaranteed commands whose execution the non-droppable
\* dispatcher has started are, in every state, a prefix of the guaranteed
\* commands in their order of submission: none is reordered, skipped,
\* coalesced or duplicated.
C1_GuaranteedOrder == IsPrefix(executed, GuaranteedSubmitted)

\* Three guaranteed commands, the last a Quit, all executed, with the
\* first two already returned.
C1_Witness ==
  /\ Len(executed) = 3
  /\ cmd(1).tag = "Keyboard"
  /\ cmd(2).tag = "Keyboard"
  /\ cmd(3).tag = "Quit"
  /\ {1, 2} \subseteq exec_ok

\* C2: at most one guaranteed command's execute is in flight; the
\* dispatcher is back at its loop top or its recv only when none is, and
\* every command it started before the latest one has returned.
C2_OneAtATime ==
  /\ Cardinality(GuaranteedExecuting) <= 1
  /\ non_droppable_pc \in {"load", "recv"} => GuaranteedExecuting = {}
  /\ \A n \in 1..(Len(executed) - 1) :
       executed[n] \in exec_ok \cup exec_err

\* One guaranteed execute in flight while the next guaranteed command is
\* already buffered in the channel.
C2_Witness ==
  /\ GuaranteedExecuting # {}
  /\ non_droppable_queue # <<>>
  /\ non_droppable_pc = "execute"

\* C3: every guaranteed command the router received is executed exactly
\* once when no remote call fails.  Once the router and the non-droppable
\* task have both ended nothing more can be executed, so by then the
\* executed commands must be all the guaranteed commands received.
C3_AllGuaranteedExecuted ==
  (exec_err = {} /\ router_pc \in Ended /\ non_droppable_pc \in Ended)
    => executed = SelectSeq(Received, IsGuaranteed)

\* C4 as first stated: the one execution a round spawns is for the last of
\* the commands that were buffered when the round's recv returned, and the
\* other buffered commands are never executed.
C4_LastOfBuffered ==
  \A k \in CompletedRounds :
    /\ rounds[k].spawned = Last(rounds[k].buffered)
    /\ \A i \in Range(rounds[k].buffered) \ {Last(rounds[k].buffered)} :
         i \notin EverExecuting

\* C4, amended: a round takes every command that was buffered when its recv
\* returned, spawns exactly one execution, for the last command it took
\* from the channel (the last of the buffered ones unless more were
\* enqueued before the drain ended), and no other command it took is ever
\* executed.
C4_Coalescing ==
  /\ \A k \in 1..Len(rounds) :
       LET r == rounds[k] IN
         /\ r.taken # <<>>
         /\ \A i \in Range(r.taken) \ {Last(r.taken)} :
              i \notin EverExecuting
         /\ k \in CompletedRounds =>
              /\ IsPrefix(r.buffered, r.taken)
              /\ r.spawned = Last(r.taken)
              /\ r.spawned \in EverExecuting
              /\ r.taken = r.buffered => r.spawned = Last(r.buffered)
         /\ k \notin CompletedRounds =>
              /\ k = Len(rounds)
              /\ droppable_pc = "try_recv"
              /\ Last(r.taken) = latest
              /\ latest \notin EverExecuting
  /\ {i \in EverExecuting : IsDroppable(i)} =
       {rounds[k].spawned : k \in CompletedRounds}
  /\ \A k, l \in CompletedRounds :
       rounds[k].spawned = rounds[l].spawned => k = l

\* Resize{5,1} then Resize{120,60}, both buffered before the round began:
\* one execution, returned, for the second; none for the first.
C4_Witness ==
  /\ Len(rounds) = 1
  /\ rounds[1].buffered = <<1, 2>>
  /\ rounds[1].spawned = 2
  /\ cmd(1) = Resize(5, 1)
  /\ cmd(2) = Resize(120, 60)
  /\ 2 \in exec_ok
  /\ 1 \notin EverExecuting

\* C5: a droppable command taken in a round and not executed has a later
\* command of its own kind forwarded after it, and for each droppable kind
\* the last command of that kind taken in a round is the one executed.
C5_SupersededBySameKind ==
  \A k \in CompletedRounds :
    \A n \in 1..Len(rounds[k].taken) :
      LET i == rounds[k].taken[n] IN
        /\ i # rounds[k].spawned =>
             \E j \in Range(droppable_sent) :
               j > i /\ cmd(j).tag = cmd(i).tag
        /\ (\A m \in (n + 1)..Len(rounds[k].taken) :
              cmd(rounds[k].taken[m]).tag # cmd(i).tag)
             => i \in EverExecuting

\* C6: the droppable (guaranteed) commands the router has received and
\* dealt with are, in order, exactly the commands ever sent into the
\* droppable (non-droppable) channel.
C6_OneSendPerCommand ==
  /\ SelectSeq(Routed, IsDroppable) = droppable_sent
  /\ SelectSeq(Routed, IsGuaranteed) = non_droppable_sent

\* ok_to_drop over every variant and payload: defined, and true exactly
\* for the variants Resize, Scroll and Drag.
ClassifiedByTag ==
  /\ \A c \in UiCommand :
       /\ ok_to_drop(c) \in BOOLEAN
       /\ ok_to_drop(c) <=> c.tag \in {"Resize", "Scroll", "Drag"}
  /\ FrontEndCommands \subseteq UiCommand

\* C7: ok_to_drop is defined on every command and is decided by the
\* variant alone: true for Resize, Scroll and Drag with any payload, false
\* for every other variant with any payload; and the router has sent into
\* the droppable channel only commands of those three variants and into
\* the non-droppable channel only commands of the others.
C7_Classifier ==
  /\ ClassifiedByTag
  /\ \A i \in Range(droppable_sent) :
       cmd(i).tag \in {"Resize", "Scroll", "Drag"}
  /\ \A i \in Range(non_droppable_sent) :
       cmd(i).tag \notin {"Resize", "Scroll", "Drag"}

\* The router has classified a Resize, a Scroll and a Quit.
C7_Witness ==
  /\ \E i \in Range(droppable_sent) : cmd(i).tag = "Resize"
  /\ \E i \in Range(droppable_sent) : cmd(i).tag = "Scroll"
  /\ \E i \in Range(non_droppable_sent) : cmd(i).tag = "Quit"

\* C8: once the inbound channel is closed and drained, the router
\* eventually stores false into running and ends; and once it has, and the
\* non-droppable channel is drained, the non-droppable task eventually ends.
C8_ShutdownPropagation ==
  /\ (~ui_command_sender_alive /\ ui_command_queue = <<>>)
       ~> (~running /\ router_pc \in Ended)
  /\ (~running /\ router_pc \in Ended /\ non_droppable_queue = <<>>)
       ~> (non_droppable_pc \in Ended)

\* C9: a failed remote call of a command whose execute unwraps the result
\* ends neither the router nor the non-droppable dispatcher: neither task
\* has panicked.
C9_FailureIsolation ==
  (\E i \in exec_err : unwraps_result(cmd(i)))
    => (router_pc # "panicked" /\ non_droppable_pc # "panicked")

\* C10: when the remote call of a Quit or a FileDrop fails, execute
\* returns normally: the step leaves running and the router and droppable
\* tasks as they were and puts the non-droppable task back at the top of
\* its loop; and as long as only such calls have failed, neither the router
\* nor the non-droppable task has panicked.
C10_BestEffort ==
  /\ [][\A i \in executing :
          (i \notin executing' /\ i \in exec_err'
             /\ cmd(i).tag \in {"Quit", "FileDrop"})
            => /\ running' = running
               /\ router_pc' = router_pc
               /\ droppable_pc' = droppable_pc
               /\ non_droppable_pc' = "load"]_vars
  /\ []((\A i \in exec_err : cmd(i).tag \in {"Quit", "FileDrop"})
          => (router_pc # "panicked" /\ non_droppable_pc # "panicked"))

\* A FileDrop whose call failed, a Quit whose call failed, and after them a
\* Keyboard command executed successfully.
C10_Witness ==
  /\ executed = <<1, 2, 3>>
  /\ cmd(1).tag = "FileDrop"
  /\ cmd(2).tag = "Quit"
  /\ cmd(3).tag = "Keyboard"
  /\ exec_err = {1, 2}
  /\ exec_ok = {3}
  /\ running

----------------------------------------------------------------------------
\* Dimensions a Resize may carry: around both minimums, and large ones.
ResizeDimensions == {0, 1, 2, 3, 4, 5, 9, 10, 11, 60, 120, 2147483647}

\* Results handed to the arms of execute that call no windows_utils
\* function.
OsNotConsulted ==
  [unregister_rightclick |-> TRUE,
   register_rightclick_directory |-> TRUE,
   register_rightclick_file |-> TRUE]

\* execute on Resize{w, h}, for every pair of these dimensions and
\* whatever the windows_utils functions would return, awaits exactly one
\* call, ui_try_resize, with w floored to 10 and h to 3.
ResizeFloored ==
  \A w \in ResizeDimensions : \A h \in ResizeDimensions :
  \A os \in OsResults :
    LET calls == remote_calls(Resize(w, h), os) IN
      /\ Len(calls) = 1
      /\ calls[1].method = "ui_try_resize"
      /\ Len(calls[1].args) = 2
      /\ calls[1].args[1] = (IF w < 10 THEN 10 ELSE w)
      /\ calls[1].args[2] = (IF h < 3 THEN 3 ELSE h)

\* C11: executing Resize{width, height} issues exactly one remote resize
\* call, with arguments max(width, 10) and max(height, 3): for every pair
\* of the dimensions above, and for every Resize either dispatcher has
\* executed; Resize{5, 1} gives (10, 3), and dimensions at or above the
\* minimums pass unchanged.
C11_ResizeFloors ==
  /\ ResizeFloored
  /\ remote_calls(Resize(5, 1), OsNotConsulted) =
       <<[method |-> "ui_try_resize", args |-> <<10, 3>>]>>
  /\ \A i \in EverExecuting :
       cmd(i).tag = "Resize" =>
         LET calls == remote_calls(cmd(i), OsNotConsulted)
             width == cmd(i).width
             height == cmd(i).height
         IN  /\ Len(calls) = 1
             /\ calls[1].method = "ui_try_resize"
             /\ calls[1].args[1] >= 10
             /\ calls[1].args[2] >= 3
             /\ calls[1].args[1] \in {10, width}
             /\ calls[1].args[2] \in {3, height}
             /\ width >= 10 => calls[1].args[1] = width
             /\ height >= 3 => calls[1].args[2] = height

\* Resize{5, 1} was executed, its call (10, 3) returned Ok; and
\* Resize{120, 60} was executed with its dimensions unchanged.
C11_Witness ==
  \E i, j \in exec_ok :
    /\ cmd(i) = Resize(5, 1)
    /\ remote_calls(cmd(i), OsNotConsulted)[1].args =
         <<10, 3>>
    /\ cmd(j) = Resize(120, 60)
    /\ remote_calls(cmd(j), OsNotConsulted)[1].args =
         <<120, 60>>

\* C12: running is true when the pipeline starts, and once it is false no
\* step of the router, of either dispatcher or of a spawned execution
\* makes it true again.
C12_FlagMonotonic ==
  /\ running = TRUE
  /\ [][running = FALSE => running' = FALSE]_vars

\* The flag is set and, after that, both dispatchers have read it and a
\* spawned execution has returned.
C12_Witness ==
  /\ ~running
  /\ droppable_pc = "done"
  /\ non_droppable_pc = "done"
  /\ \E i \in exec_ok : IsDroppable(i)
  /\ \E i \in exec_ok : IsGuaranteed(i)

\* C13: the droppable task does not act on the flag: it ends only when
\* its channel is closed, never while the channel is open or still holds
\* commands.
C13_EndsOnlyOnClosure ==
  droppable_pc \in Ended => (senders_dropped /\ droppable_queue = <<>>)

\* C14: the last droppable command the router forwarded is handed to an
\* execution, also when the inbound channel is closed right after it was
\* forwarded.  Once the router and the droppable task have both ended
\* nothing more is forwarded or handed over, so by then the last command
\* forwarded must have been handed to an execution.
C14_LatestDelivered ==
  (router_pc \in Ended /\ droppable_pc \in Ended /\ droppable_sent # <<>>)
    => Last(droppable_sent) \in EverExecuting

\* C15: the droppable task goes back to the top of its loop as soon as it
\* has spawned an execution and never waits for one.  Whatever executions
\* are in flight: with a command buffered, its recv and its try_recv are
\* enabled; while it has not ended, one of its steps is enabled unless it
\* is blocked in recv on an empty, open channel; and the router's send is
\* enabled whenever the router holds a command.
C15_IntakeNeverStalled ==
  /\ (droppable_pc = "recv" /\ droppable_queue # <<>>)
       => ENABLED DroppableRecv
  /\ (droppable_pc = "try_recv" /\ droppable_queue # <<>>)
       => ENABLED DroppableTryRecv
  /\ droppable_pc \notin Ended =>
       \/ ENABLED DroppableTask
       \/ (droppable_pc = "recv" /\ droppable_queue = <<>>
             /\ ~senders_dropped)
  /\ router_pc = "send" => ENABLED RouterSend

\* Two rounds' executions are in flight at once while the droppable task
\* is taking in a third command.
C15_Witness ==
  /\ Len(rounds) = 3
  /\ rounds[1].spawned \in executing
  /\ rounds[2].spawned \in executing
  /\ rounds[3].spawned = 0
  /\ droppable_pc = "try_recv"

\* C16: whenever the router is about to send a command, the dispatcher
\* that owns the receiver of the matching channel has not ended.
C16_ReceiverAlive ==
  router_pc = "send" =>
    IF ok_to_drop(cmd(ui_command))
      THEN ~droppable_receiver_dropped
      ELSE ~non_droppable_receiver_dropped

\* All three long-lived tasks have left their loops or panicked.
AllTasksEnded ==
  /\ router_pc \in Ended
  /\ droppable_pc \in Ended
  /\ non_droppable_pc \in Ended

\* C17: once the inbound sender is dropped, the router, the droppable task
\* and the non-droppable task all eventually end, with no assumption that
\* a spawned droppable execution ever returns.
C17_Termination == ~ui_command_sender_alive ~> AllTasksEnded

\* The three tasks have ended while a spawned droppable execution is still
\* in flight.
C17_Witness ==
  /\ ~ui_command_sender_alive
  /\ AllTasksEnded
  /\ \E i \in executing : IsDroppable(i)

\* The router's recv on the inbound channel reports the closure and the
\* router leaves its loop.
RouterObservesClosure ==
  /\ router_pc = "recv"
  /\ ui_command_queue = <<>>
  /\ ~ui_command_sender_alive
  /\ router_pc' = "done"

\* The non-droppable task's recv reports the closure of its channel and
\* the task leaves its loop.
NonDroppableObservesClosure ==
  /\ non_droppable_pc = "recv"
  /\ non_droppable_queue = <<>>
  /\ senders_dropped
  /\ non_droppable_pc' = "done"

\* C18: the flag changes only in a step in which the router's recv or the
\* non-droppable task's recv reports the closure of its channel; a step of
\* the droppable task, the start or the end of an execution leaves it
\* unchanged; and the flag is never set while the inbound channel is open
\* and the router is running.
C18_FlagWrittenOnClosure ==
  /\ [][/\ running' # running =>
             (RouterObservesClosure \/ NonDroppableObservesClosure)
        /\ (\/ droppable_pc' # droppable_pc
            \/ rounds' # rounds
            \/ executing' # executing) => running' = running]_vars
  /\ []((ui_command_sender_alive /\ router_pc \notin Ended) => running)

\* The router has set the flag on the closure of the inbound channel after
\* the droppable task handed a command over and its execution returned.
C18_Witness ==
  /\ ~running
  /\ router_pc = "done"
  /\ ~ui_command_sender_alive
  /\ ui_command_queue = <<>>
  /\ \E i \in exec_ok : IsDroppable(i)
  /\ droppable_pc = "recv"

RECURSIVE IsSubsequence(_, _)
IsSubsequence(s, t) ==
  IF s = <<>> THEN TRUE
  ELSE IF t = <<>> THEN FALSE
  ELSE IF Head(s) = Head(t) THEN IsSubsequence(Tail(s), Tail(t))
  ELSE IsSubsequence(s, Tail(t))

NoRepeats(s) == \A j, k \in 1..Len(s) : j # k => s[j] # s[k]

\* The commands handed to spawned executions, in the order of the
\* hand-offs.
Handed ==
  LET completed == SelectSeq(rounds, LAMBDA r : r.spawned # 0)
  IN  [k \in 1..Len(completed) |-> completed[k].spawned]

\* C19: the commands handed to spawned executions are, in every state, a
\* subsequence without repeats of the droppable commands the router
\* forwarded; and every hand-off happens with the droppable channel empty
\* and hands over the command the router forwarded last.
C19_HandedSubsequence ==
  /\ [](IsSubsequence(Handed, droppable_sent) /\ NoRepeats(Handed))
  /\ [][Handed' # Handed =>
          /\ droppable_queue = <<>>
          /\ latest = Last(droppable_sent)
          /\ Handed' = Append(Handed, latest)]_vars

\* Of three droppable commands forwarded, the first and the third were
\* handed over and the second was superseded.
C19_Witness ==
  /\ droppable_sent = <<1, 2, 3>>
  /\ Handed = <<1, 3>>

\* C20: whenever the router task has ended, running is false.
C20_FlagReportsStop == router_pc \in Ended => ~running

====
